---- MODULE Spec2Model ----
(***************************************************************************)
(* Check-in token lifecycle of the meeting attendance backend:             *)
(* generate_qr_token and check_in of main.py over the Qr_Tokens and        *)
(* Attendance_Log worksheets driven through SheetsManager                  *)
(* (sheets_manager.py).  Every request handler is a FastAPI "def"          *)
(* endpoint, so requests run on worker threads and each gspread call is    *)
(* one round trip to the spreadsheet; the round trips of different         *)
(* requests interleave freely.                                             *)
(***************************************************************************)
EXTENDS Integers, Sequences, FiniteSets, TLC

VARIABLES qr_tokens, attendance_log, now, nTicks, calls, issued, lastIssue, burned, journal

vars == <<qr_tokens, attendance_log, now, nTicks, calls, issued, lastIssue, burned, journal>>

(* ------------------------------ bounds -------------------------------- *)
\* number of check_in requests in a behaviour
MaxCalls == 2
\* number of check_in requests in a behaviour of the specification of three
\* requests on two tokens
MaxRaceCalls == 3
\* number of tokens generate_qr_token hands out in a behaviour
MaxIssues == 2
\* number of check_in requests in progress at the same time (worker threads
\* of the server's pool)
MaxActive == 2
\* number of clock advances in a behaviour
MaxTicks == 1
\* clock ticks per second: time.time() is a float, the model clock counts
\* 1/Res seconds
Res == 2

(* --------------------------- program constants ------------------------ *)
QR_CODE_EXP_SECONDS == 15

\* header rows of the worksheets (WORKSHEET_DEFINITIONS)
QrHeaders == <<"token_uuid", "participant_id", "agenda_item_id", "device_id", "expires_at">>
LogHeaders == <<"id", "participant_id", "agenda_item_id", "checkin_time", "checkin_method", "scanner_device_id", "is_valid">>

\* the Participants and Agenda_Items worksheets (id column and display
\* column); check_in and generate_qr_token only read them
Participants == << <<"id", "name">>, <<"P1", "n1">> >>
Agenda_Items == << <<"id", "agenda_title">>, <<"A1", "t1">>, <<"A2", "t2">> >>

(* ------------------------------ inputs -------------------------------- *)
\* uuid4 values handed out by generate_qr_token, in order of issuance
TokenIds == <<"T1", "T2", "T3", "T4">>
\* a token string that was never issued
UnknownToken == "T0"
ParticipantInputs == {"P1", "P9"}
AgendaInputs == {"A1", "A2", "A9"}
ClaimInputs == {"A1", "A2"}
DeviceInputs == {"d1"}
ScannerInputs == {"s1"}
\* clock advances: one tick, one tick short of a token lifetime, a lifetime
TickSteps == {1, QR_CODE_EXP_SECONDS * Res - 1, QR_CODE_EXP_SECONDS * Res}

(* ------------------------- values and conversions ---------------------- *)
Min(a, b) == IF a < b THEN a ELSE b

\* str(n) as the worksheet renders an integer cell: its decimal digits
RECURSIVE FormatInt(_)
FormatInt(n) == IF n < 10 THEN <<n>> ELSE Append(FormatInt(n \div 10), n % 10)

\* int(s) of a digit string
RECURSIVE ParseInt(_)
ParseInt(s) ==
    IF Len(s) = 0 THEN 0
    ELSE 10 * ParseInt(SubSeq(s, 1, Len(s) - 1)) + s[Len(s)]

\* dict(zip(headers, row_values)): zip stops at the shorter list
ZipDict(headers, row) ==
    [k \in {headers[i] : i \in 1..Min(Len(headers), Len(row))} |->
        row[CHOOSE i \in 1..Min(Len(headers), Len(row)) : headers[i] = k]]

\* d.get(k, default)
Get(d, k, default) == IF k \in DOMAIN d THEN d[k] ELSE default

\* Python None / an empty dict: both are falsy in "if not token_data"
NoData == <<>>
Falsy(d) == DOMAIN d = {}

(* --------------------------- worksheet operations ---------------------- *)
\* sheet.find(value, in_column=col): the number of the first row whose cell
\* in that column equals value, 0 when there is none (CellNotFound)
FindRow(sheet, value, col) ==
    IF \E i \in 1..Len(sheet) : Len(sheet[i]) >= col /\ sheet[i][col] = value
    THEN CHOOSE i \in 1..Len(sheet) :
            /\ Len(sheet[i]) >= col /\ sheet[i][col] = value
            /\ \A j \in 1..(i - 1) : ~(Len(sheet[j]) >= col /\ sheet[j][col] = value)
    ELSE 0

\* sheet.row_values(r): the cells of row r, [] for a row below the data
RowValues(sheet, r) == IF r \in 1..Len(sheet) THEN sheet[r] ELSE <<>>

\* sheet.delete_rows(r): rows below r move up by one; deleting an empty
\* grid row below the data changes nothing
DeleteRows(sheet, r) ==
    IF r \in 1..Len(sheet)
    THEN SubSeq(sheet, 1, r - 1) \o SubSeq(sheet, r + 1, Len(sheet))
    ELSE sheet

\* an append that writes over the last data row
AppendRowOverLast(sheet, data) ==
    IF Len(sheet) > 1 THEN [sheet EXCEPT ![Len(sheet)] = data] ELSE Append(sheet, data)

\* sheet.append_row(data)
AppendRow(sheet, data) == Append(sheet, data)

\* sheet.get_all_records(): one dict per data row, keyed by the header row
AllRecords(sheet) ==
    [i \in 1..(Len(sheet) - 1) |-> ZipDict(sheet[1], sheet[i + 1])]

\* SheetsManager.find_record_by_id without a store error
FindRecordById(sheet, record_id) ==
    IF FindRow(sheet, record_id, 1) = 0 THEN NoData
    ELSE ZipDict(RowValues(sheet, 1), RowValues(sheet, FindRow(sheet, record_id, 1)))

(* ------------------------------ main.py -------------------------------- *)
\* an expiry stamp rounded up to the next whole second
ExpiresAtRoundedUp(t) == (t + QR_CODE_EXP_SECONDS * Res + Res - 1) \div Res

\* int(time.time() + QR_CODE_EXP_SECONDS) at clock reading t (in ticks)
ExpiresAt(t) == (t + QR_CODE_EXP_SECONDS * Res) \div Res

\* an expiry check that is one second late
IsExpiredLate(t, token_data) == t > (token_data["expires_at"] + 1) * Res

\* time.time() > token_data['expires_at'] at clock reading t (in ticks)
IsExpired(t, token_data) == t > token_data["expires_at"] * Res

\* a duplicate check that looks the pair up in the wrong columns
AlreadyCheckedInSwapped(attendance_logs, p_id, a_id_token) ==
    \E i \in 1..Len(attendance_logs) :
        /\ Get(attendance_logs[i], "participant_id", "None") = a_id_token
        /\ Get(attendance_logs[i], "agenda_item_id", "None") = p_id

\* any(log.get('participant_id') == p_id and
\*     log.get('agenda_item_id') == a_id_token for log in attendance_logs)
AlreadyCheckedIn(attendance_logs, p_id, a_id_token) ==
    \E i \in 1..Len(attendance_logs) :
        /\ Get(attendance_logs[i], "participant_id", "None") = p_id
        /\ Get(attendance_logs[i], "agenda_item_id", "None") = a_id_token

\* a check_in without the agenda comparison
CheckOutcomeAnyAgenda(token_data, t, agenda_item_id) ==
    IF Falsy(token_data) THEN "InvalidOrUsedToken"
    ELSE IF IsExpired(t, token_data) THEN "Expired"
    ELSE ""

\* the HTTP answer of check_in after consume_qr_token returned token_data
\* and the clock read t: "" when the request goes on to the ledger
CheckOutcome(token_data, t, agenda_item_id) ==
    IF Falsy(token_data) THEN "InvalidOrUsedToken"
    ELSE IF IsExpired(t, token_data) THEN "Expired"
    ELSE IF Get(token_data, "agenda_item_id", "None") # agenda_item_id THEN "AgendaMismatch"
    ELSE ""

\* log_data of check_in; the record uuid and the ISO time string are cells
\* that no modelled code reads, so they are not modelled beyond their column
LogData(c) ==
    << "uuid", Get(calls[c].token_data, "participant_id", "None"),
       calls[c].agenda_item_id, "checkin_time_utc", "QR_CODE",
       calls[c].scanner_device_id, "TRUE" >>

\* a worker thread that has served no check_in request yet
IdleCall ==
    [pc |-> "idle", qr_code_token |-> "", agenda_item_id |-> "", scanner_device_id |-> "",
     row |-> 0, token_data |-> NoData, removed |-> "-", burnedAtStart |-> FALSE]

Calls == 1..MaxActive

Init ==
    /\ qr_tokens = <<QrHeaders>>
    /\ attendance_log = <<LogHeaders>>
    /\ now = 1
    /\ nTicks = 0
    /\ calls = [c \in Calls |-> IdleCall]
    /\ issued = <<>>
    /\ lastIssue = [participant_id |-> "", agenda_item_id |-> "", status |-> "", qr_code_token |-> ""]
    /\ burned = {}
    /\ journal = <<>>

\* the wall clock advances
Tick(d) ==
    /\ nTicks < MaxTicks
    /\ now' = now + d
    /\ nTicks' = nTicks + 1
    /\ UNCHANGED <<qr_tokens, attendance_log, calls, issued, lastIssue, burned, journal>>

\* generate_qr_token on the rows its two lookups returned; add_qr_token
\* succeeds when it is reached
IssueWith(p, a, d, participant, agenda_item) ==
    /\ Len(issued) < MaxIssues
    /\ IF Falsy(participant) \/ Falsy(agenda_item)
       THEN /\ lastIssue' = [participant_id |-> p, agenda_item_id |-> a,
                             status |-> "NotFound", qr_code_token |-> ""]
            /\ UNCHANGED <<qr_tokens, issued>>
       ELSE LET short_uuid_token == TokenIds[Len(issued) + 1]
                expires_at == ExpiresAt(now)
            IN  /\ qr_tokens' = AppendRow(qr_tokens,
                        <<short_uuid_token, p, a, d, FormatInt(expires_at)>>)
                /\ issued' = Append(issued,
                        [token_uuid |-> short_uuid_token, participant_id |-> p,
                         agenda_item_id |-> a, device_id |-> d,
                         expires_at |-> expires_at, issued_at |-> now])
                /\ lastIssue' = [participant_id |-> p, agenda_item_id |-> a,
                                 status |-> "success", qr_code_token |-> short_uuid_token]
    /\ UNCHANGED <<attendance_log, now, nTicks, calls, burned, journal>>

\* a generate_qr_token that validates the participant id only
IssueUnvalidatedAgenda(p, a, d) ==
    IssueWith(p, a, d, FindRecordById(Participants, p), FindRecordById(Participants, p))

\* generate_qr_token: both lookups answer
Issue(p, a, d) ==
    IssueWith(p, a, d, FindRecordById(Participants, p), FindRecordById(Agenda_Items, a))

\* generate_qr_token when the store fails: a failing lookup makes
\* find_record_by_id return None (404), a failing add_qr_token raises (500)
IssueError(p, a, d, where) ==
    /\ \/ /\ where = "lookup"
          /\ lastIssue' = [participant_id |-> p, agenda_item_id |-> a,
                           status |-> "NotFound", qr_code_token |-> ""]
       \/ /\ where = "append"
          /\ ~Falsy(FindRecordById(Participants, p))
          /\ ~Falsy(FindRecordById(Agenda_Items, a))
          /\ lastIssue' = [participant_id |-> p, agenda_item_id |-> a,
                           status |-> "StorageError", qr_code_token |-> ""]
    /\ UNCHANGED <<qr_tokens, attendance_log, now, nTicks, calls, issued, burned, journal>>

\* generate_qr_token for a participant and an agenda item that exist
IssueKnown(p, a, d) ==
    /\ ~Falsy(FindRecordById(Participants, p))
    /\ ~Falsy(FindRecordById(Agenda_Items, a))
    /\ Issue(p, a, d)

\* the tokens a scanner can present: those handed out so far, or a stranger
Presentable == {issued[i].token_uuid : i \in 1..Len(issued)} \cup {UnknownToken}

\* the worker threads that are free to take a request
Free == {k \in Calls : calls[k].pc = "idle"}

\* the check_in requests received so far
Received == Len(journal) + Cardinality(Calls \ Free)

\* a check_in request arrives and the first free worker thread takes it
Start(c, t, a, s) ==
    /\ c \in Free
    /\ \A k \in Free : c <= k
    /\ t \in Presentable
    /\ calls' = [calls EXCEPT ![c] =
                    [IdleCall EXCEPT !.pc = "find", !.qr_code_token = t, !.agenda_item_id = a,
                                     !.scanner_device_id = s, !.burnedAtStart = (t \in burned)]]
    /\ UNCHANGED <<qr_tokens, attendance_log, now, nTicks, issued, lastIssue, burned, journal>>

\* the request of worker c is answered: the locals of check_in are gone and
\* the thread is free again; the answers are kept in the order they are given,
\* each with the number of ledger rows the request appended
Answer(c, outcome, appended) ==
    /\ calls' = [calls EXCEPT ![c] = IdleCall]
    /\ journal' = Append(journal, [qr_code_token |-> calls[c].qr_code_token,
                                   agenda_item_id |-> calls[c].agenda_item_id,
                                   burnedAtStart |-> calls[c].burnedAtStart,
                                   outcome |-> outcome, appended |-> appended])

\* consume_qr_token step 1: sheet.find; without a match consume returns None
\* and check_in answers 400 "invalid or used"
Find(c) ==
    /\ calls[c].pc = "find"
    /\ LET r == FindRow(qr_tokens, calls[c].qr_code_token, 1)
       IN  IF r = 0
           THEN Answer(c, CheckOutcome(NoData, now, calls[c].agenda_item_id), 0)
           ELSE /\ calls' = [calls EXCEPT ![c] = [@ EXCEPT !.pc = "read", !.row = r]]
                /\ UNCHANGED journal
    /\ UNCHANGED <<qr_tokens, attendance_log, now, nTicks, issued, lastIssue, burned>>

\* consume_qr_token step 2: row_values(cell.row), row_values(1), dict(zip)
Read(c) ==
    /\ calls[c].pc = "read"
    /\ calls' = [calls EXCEPT ![c] =
                    [@ EXCEPT !.pc = "delete",
                              !.token_data = ZipDict(RowValues(qr_tokens, 1),
                                                     RowValues(qr_tokens, calls[c].row))]]
    /\ UNCHANGED <<qr_tokens, attendance_log, now, nTicks, issued, lastIssue, burned, journal>>

\* token_data['expires_at'] = int(token_data.get('expires_at', 0))
WithIntExpiry(token_data) ==
    [k \in (DOMAIN token_data) \cup {"expires_at"} |->
        IF k = "expires_at"
        THEN (IF "expires_at" \in DOMAIN token_data THEN ParseInt(token_data["expires_at"]) ELSE 0)
        ELSE token_data[k]]

\* the token_uuid cell of a row, "" for an empty row
Uuid(row) == IF Len(row) >= 1 THEN row[1] ELSE ""

\* consume_qr_token steps 3 and 4: delete_rows(cell.row), return token_data
Delete(c) ==
    /\ calls[c].pc = "delete"
    /\ qr_tokens' = DeleteRows(qr_tokens, calls[c].row)
    /\ calls' = [calls EXCEPT ![c] =
                    [@ EXCEPT !.pc = "check", !.row = 0,
                              !.removed = Uuid(RowValues(qr_tokens, calls[c].row)),
                              !.token_data = WithIntExpiry(calls[c].token_data)]]
    /\ burned' = IF Get(calls[c].token_data, "token_uuid", "") = calls[c].qr_code_token
                 THEN burned \cup {calls[c].qr_code_token}
                 ELSE burned
    /\ UNCHANGED <<attendance_log, now, nTicks, issued, lastIssue, journal>>

\* a consume_qr_token that starts over when a gspread call raises
ConsumeErrorRetried(c) ==
    /\ calls[c].pc \in {"find", "read", "delete"}
    /\ calls' = [calls EXCEPT ![c] = [@ EXCEPT !.pc = "find", !.row = 0, !.token_data = NoData]]
    /\ UNCHANGED <<qr_tokens, attendance_log, now, nTicks, issued, lastIssue, burned, journal>>

\* consume_qr_token: a gspread call raises, "except Exception" returns None,
\* and check_in answers 400 "invalid or used"
ConsumeError(c) ==
    /\ calls[c].pc \in {"find", "read", "delete"}
    /\ Answer(c, CheckOutcome(NoData, now, calls[c].agenda_item_id), 0)
    /\ UNCHANGED <<qr_tokens, attendance_log, now, nTicks, issued, lastIssue, burned>>

\* a check_in that compares the agenda id before it looks at the expiry
CheckAgendaFirst(c) ==
    /\ calls[c].pc = "check"
    /\ LET out == IF Falsy(calls[c].token_data) THEN "InvalidOrUsedToken"
                  ELSE IF Get(calls[c].token_data, "agenda_item_id", "None") # calls[c].agenda_item_id
                       THEN "AgendaMismatch"
                  ELSE IF IsExpired(now, calls[c].token_data) THEN "Expired"
                  ELSE ""
       IN  IF out = ""
           THEN /\ calls' = [calls EXCEPT ![c] = [@ EXCEPT !.pc = "scan"]]
                /\ UNCHANGED journal
           ELSE Answer(c, out, 0)
    /\ UNCHANGED <<qr_tokens, attendance_log, now, nTicks, issued, lastIssue, burned>>

\* check_in after consume returned token data: expiry, agenda match
Check(c) ==
    /\ calls[c].pc = "check"
    /\ LET out == CheckOutcome(calls[c].token_data, now, calls[c].agenda_item_id)
       IN  IF out = ""
           THEN /\ calls' = [calls EXCEPT ![c] = [@ EXCEPT !.pc = "scan"]]
                /\ UNCHANGED journal
           ELSE Answer(c, out, 0)
    /\ UNCHANGED <<qr_tokens, attendance_log, now, nTicks, issued, lastIssue, burned>>

\* check_in's duplicate check on the list get_all_records returned
ScanWith(c, attendance_logs) ==
    /\ IF AlreadyCheckedIn(attendance_logs,
                           Get(calls[c].token_data, "participant_id", "None"),
                           Get(calls[c].token_data, "agenda_item_id", "None"))
       THEN Answer(c, "DuplicateCheckIn", 0)
       ELSE /\ calls' = [calls EXCEPT ![c] = [@ EXCEPT !.pc = "append"]]
            /\ UNCHANGED journal
    /\ UNCHANGED <<qr_tokens, attendance_log, now, nTicks, issued, lastIssue, burned>>

\* get_all_records('Attendance_Log') answers
Scan(c) ==
    /\ calls[c].pc = "scan"
    /\ ScanWith(c, AllRecords(attendance_log))

\* get_all_records('Attendance_Log') fails: it prints and returns []
ScanError(c) ==
    /\ calls[c].pc = "scan"
    /\ ScanWith(c, <<>>)

\* the end of check_in once append_row returned, on the participant row
\* find_record_by_id returned: participant_data.get on None raises, and the
\* request ends in a 500
AppendThen(c, participant_data) ==
    /\ attendance_log' = AppendRow(attendance_log, LogData(c))
    /\ IF Falsy(participant_data)
       THEN Answer(c, "StorageError", 1)
       ELSE Answer(c, "SUCCEEDED", 1)
    /\ UNCHANGED <<qr_tokens, now, nTicks, issued, lastIssue, burned>>

\* append_row('Attendance_Log', log_data) succeeds and
\* find_record_by_id('Participants', p_id) answers
AppendLog(c) ==
    /\ calls[c].pc = "append"
    /\ AppendThen(c, FindRecordById(Participants,
                                    Get(calls[c].token_data, "participant_id", "None")))

\* append_row succeeds, then find_record_by_id fails: it prints and returns None
LookupError(c) ==
    /\ calls[c].pc = "append"
    /\ AppendThen(c, NoData)

\* an append_row failure that is swallowed, the request reporting success
AppendErrorSwallowed(c) ==
    /\ calls[c].pc = "append"
    /\ Answer(c, "SUCCEEDED", 0)
    /\ UNCHANGED <<qr_tokens, attendance_log, now, nTicks, issued, lastIssue, burned>>

\* append_row raises: check_in does not catch it, the request ends in a 500
AppendError(c) ==
    /\ calls[c].pc = "append"
    /\ Answer(c, "StorageError", 0)
    /\ UNCHANGED <<qr_tokens, attendance_log, now, nTicks, issued, lastIssue, burned>>

(* --------------------------- specifications ---------------------------- *)
\* a check_in request arrives, whatever the other worker threads are doing
StartAny(c, t, a, s) == Received < MaxCalls /\ Start(c, t, a, s)

\* the same, in the specification of three requests
StartRace(c, t, a, s) == Received < MaxRaceCalls /\ Start(c, t, a, s)

\* requests on worker threads over a store whose calls may fail; the token
\* requests are those that name existing ids
Next ==
    \/ \E d \in TickSteps : Tick(d)
    \/ \E p \in ParticipantInputs, a \in AgendaInputs, d \in DeviceInputs : IssueKnown(p, a, d)
    \/ \E c \in Calls, t \in Presentable, a \in ClaimInputs, s \in ScannerInputs : StartAny(c, t, a, s)
    \/ \E c \in Calls : Find(c)
    \/ \E c \in Calls : Read(c)
    \/ \E c \in Calls : Delete(c)
    \/ \E c \in Calls : ConsumeError(c)
    \/ \E c \in Calls : Check(c)
    \/ \E c \in Calls : Scan(c)
    \/ \E c \in Calls : ScanError(c)
    \/ \E c \in Calls : AppendLog(c)
    \/ \E c \in Calls : LookupError(c)
    \/ \E c \in Calls : AppendError(c)

Spec == Init /\ [][Next]_vars

\* a store round trip of the request of worker c is answered, with a result
\* or with an error
Step(c) ==
    \/ Find(c) \/ Read(c) \/ Delete(c) \/ ConsumeError(c) \/ Check(c)
    \/ Scan(c) \/ ScanError(c) \/ AppendLog(c) \/ LookupError(c) \/ AppendError(c)

\* the same requests when every store round trip of a request in progress is
\* answered in the end: gspread calls return or raise, and the thread pool
\* runs every worker thread
SpecLive == Init /\ [][Next]_vars /\ \A c \in Calls : WF_vars(Step(c))

\* the Attendance_Log sheet as the server may find it: empty, or holding a
\* record whose is_valid cell an organiser has set to FALSE in the spreadsheet
LedgerInputs ==
    { <<LogHeaders>>,
      <<LogHeaders, <<"uuid", "P1", "A1", "checkin_time_utc", "QR_CODE", "s1", "FALSE">> >> }

InitLedger ==
    /\ qr_tokens = <<QrHeaders>>
    /\ attendance_log \in LedgerInputs
    /\ now = 1
    /\ nTicks = 0
    /\ calls = [c \in Calls |-> IdleCall]
    /\ issued = <<>>
    /\ lastIssue = [participant_id |-> "", agenda_item_id |-> "", status |-> "", qr_code_token |-> ""]
    /\ burned = {}
    /\ journal = <<>>

\* no check_in request is in progress
Quiet == Free = Calls

\* a check_in request arrives while no other one is in progress
StartSeq(c, t, a, s) == Quiet /\ Received < MaxCalls /\ Start(c, t, a, s)

\* one check_in request at a time over a store whose calls all succeed
NextSeq ==
    \/ \E d \in TickSteps : Tick(d)
    \/ \E p \in ParticipantInputs, a \in AgendaInputs, d \in DeviceInputs : IssueKnown(p, a, d)
    \/ \E c \in Calls, t \in Presentable, a \in ClaimInputs, s \in ScannerInputs : StartSeq(c, t, a, s)
    \/ \E c \in Calls : Find(c)
    \/ \E c \in Calls : Read(c)
    \/ \E c \in Calls : Delete(c)
    \/ \E c \in Calls : Check(c)
    \/ \E c \in Calls : Scan(c)
    \/ \E c \in Calls : AppendLog(c)

SpecSeq == Init /\ [][NextSeq]_vars

\* the same over a ledger that may hold an invalidated record
SpecLedger == InitLedger /\ [][NextSeq]_vars

\* token requests of every kind, store failures included, with check_in
\* requests served one at a time
NextIssue ==
    \/ \E d \in TickSteps : Tick(d)
    \/ \E p \in ParticipantInputs, a \in AgendaInputs, d \in DeviceInputs : Issue(p, a, d)
    \/ \E p \in ParticipantInputs, a \in AgendaInputs, d \in DeviceInputs,
          where \in {"lookup", "append"} : IssueError(p, a, d, where)
    \/ \E c \in Calls, t \in Presentable, a \in ClaimInputs, s \in ScannerInputs : StartSeq(c, t, a, s)
    \/ \E c \in Calls : Find(c)
    \/ \E c \in Calls : Read(c)
    \/ \E c \in Calls : Delete(c)
    \/ \E c \in Calls : Check(c)
    \/ \E c \in Calls : Scan(c)
    \/ \E c \in Calls : AppendLog(c)

SpecIssue == Init /\ [][NextIssue]_vars

\* three check_in requests, two at a time, over a store whose calls all succeed
NextRace ==
    \/ \E p \in ParticipantInputs, a \in AgendaInputs, d \in DeviceInputs : IssueKnown(p, a, d)
    \/ \E c \in Calls, t \in Presentable, a \in ClaimInputs, s \in ScannerInputs : StartRace(c, t, a, s)
    \/ \E c \in Calls : Find(c)
    \/ \E c \in Calls : Read(c)
    \/ \E c \in Calls : Delete(c)
    \/ \E c \in Calls : Check(c)
    \/ \E c \in Calls : Scan(c)
    \/ \E c \in Calls : AppendLog(c)

SpecRace == Init /\ [][NextRace]_vars

(* ------------------------------- claims -------------------------------- *)
\* the issuance record of token t, and whether there is one
IsIssued(t) == \E i \in 1..Len(issued) : issued[i].token_uuid = t
IssuedOf(t) == issued[CHOOSE i \in 1..Len(issued) : issued[i].token_uuid = t]

\* t1 and t2 were issued for the same participant and agenda item
SamePair(t1, t2) ==
    /\ IssuedOf(t1).participant_id = IssuedOf(t2).participant_id
    /\ IssuedOf(t1).agenda_item_id = IssuedOf(t2).agenda_item_id

\* the ledger records, and those of them for the pair token t was issued for
Ledger == AllRecords(attendance_log)
RecordsFor(t) ==
    {i \in 1..Len(Ledger) :
        /\ Ledger[i]["participant_id"] = IssuedOf(t).participant_id
        /\ Ledger[i]["agenda_item_id"] = IssuedOf(t).agenda_item_id
        /\ Ledger[i]["is_valid"] = "TRUE"}

\* the answers given so far
Answers == 1..Len(journal)

\* in this step check_in evaluates the token data consume returned to
\* worker c, and that data is the row of an issued token
CheckStep(c) ==
    /\ calls[c].pc = "check"
    /\ calls'[c].pc # "check"
    /\ IsIssued(Get(calls[c].token_data, "token_uuid", ""))

\* the token whose row consume returned to worker c
Held(c) == IssuedOf(Get(calls[c].token_data, "token_uuid", ""))

\* this step answers the request of worker c with outcome o, nothing appended
\* by the request, the ledger untouched by the step
Rejects(c, o) ==
    /\ calls'[c].pc = "idle"
    /\ Len(journal') = Len(journal) + 1
    /\ journal'[Len(journal')].outcome = o
    /\ journal'[Len(journal')].appended = 0
    /\ attendance_log' = attendance_log

\* C1: among the redeem calls that present one token_id with the agenda id it
\* was issued for, at most one is answered anything else than
\* InvalidOrUsedToken (one winner, the others InvalidOrUsedToken).
C1_SingleUse ==
    \A i, j \in Answers :
        ( /\ i # j
          /\ journal[i].qr_code_token = journal[j].qr_code_token
          /\ IsIssued(journal[i].qr_code_token)
          /\ journal[i].agenda_item_id = IssuedOf(journal[i].qr_code_token).agenda_item_id
          /\ journal[j].agenda_item_id = IssuedOf(journal[j].qr_code_token).agenda_item_id )
        => ( \/ journal[i].outcome = "InvalidOrUsedToken"
             \/ journal[j].outcome = "InvalidOrUsedToken" )

\* C2: the Attendance_Log never holds two valid records for the same
\* (participant_id, agenda_item_id) pair.
C2_NoDuplicateAttendance ==
    \A i, j \in 1..Len(Ledger) :
        ( /\ i # j
          /\ Ledger[i]["participant_id"] = Ledger[j]["participant_id"]
          /\ Ledger[i]["agenda_item_id"] = Ledger[j]["agenda_item_id"] )
        => ~(Ledger[i]["is_valid"] = "TRUE" /\ Ledger[j]["is_valid"] = "TRUE")

\* two answers, the first given before the second, to redeems of two distinct
\* tokens issued for one pair, both with the right agenda id, both tokens
\* still unexpired and neither presented before, the pair not recorded
\* before the first
SequentialPair(i, j) ==
    /\ i < j
    /\ \A k \in 1..(i - 1) : journal[k].qr_code_token # journal[i].qr_code_token
    /\ \A k \in 1..(j - 1) : journal[k].qr_code_token # journal[j].qr_code_token
    /\ journal[i].qr_code_token # journal[j].qr_code_token
    /\ IsIssued(journal[i].qr_code_token) /\ IsIssued(journal[j].qr_code_token)
    /\ SamePair(journal[i].qr_code_token, journal[j].qr_code_token)
    /\ journal[i].agenda_item_id = IssuedOf(journal[i].qr_code_token).agenda_item_id
    /\ journal[j].agenda_item_id = IssuedOf(journal[j].qr_code_token).agenda_item_id
    /\ now <= Res * IssuedOf(journal[i].qr_code_token).expires_at
    /\ now <= Res * IssuedOf(journal[j].qr_code_token).expires_at
    /\ \A k \in 1..(i - 1) :
          ~( /\ IsIssued(journal[k].qr_code_token)
             /\ SamePair(journal[k].qr_code_token, journal[i].qr_code_token)
             /\ journal[k].appended > 0 )

\* C3: two unexpired tokens of one pair redeemed one after the other with the
\* right agenda id: the first is answered SUCCEEDED, the second
\* DuplicateCheckIn, and the ledger holds exactly one record for the pair.
C3_SequentialDoubleCheckIn ==
    \A i, j \in Answers :
        SequentialPair(i, j)
        => /\ journal[i].outcome = "SUCCEEDED"
           /\ journal[j].outcome = "DuplicateCheckIn"
           /\ Cardinality(RecordsFor(journal[i].qr_code_token)) = 1

C3_Witness ==
    \E i, j \in Answers :
        /\ SequentialPair(i, j)
        /\ journal[i].outcome = "SUCCEEDED"
        /\ journal[j].outcome = "DuplicateCheckIn"

C6_BurnedForGood ==
    \A i \in Answers :
        journal[i].burnedAtStart
        => (journal[i].outcome = "InvalidOrUsedToken" /\ journal[i].appended = 0)

\* the ids in the id column of a worksheet
Ids(sheet) == {sheet[i][1] : i \in 2..Len(sheet)}

\* lastIssue answers a token request that names an unknown id
UnknownIdRequest ==
    /\ lastIssue.status # ""
    /\ \/ lastIssue.participant_id \notin Ids(Participants)
       \/ lastIssue.agenda_item_id \notin Ids(Agenda_Items)

C8_SuccessIffRecorded ==
    \A i \in Answers : (journal[i].appended = 1) <=> (journal[i].outcome = "SUCCEEDED")

\* C9: a redeem whose ledger append fails (it leaves the append step with the
\* ledger as it was) is answered StorageError, has appended nothing, and the
\* step restores no token row.
C9_StorageErrorAfterConsume ==
    [][\A c \in Calls :
          (calls[c].pc = "append" /\ calls'[c].pc # "append" /\ attendance_log' = attendance_log)
          => (Rejects(c, "StorageError") /\ qr_tokens' = qr_tokens)]_vars

C9_Witness ==
    \E i \in Answers :
        /\ journal[i].outcome = "StorageError"
        /\ journal[i].appended = 0
        /\ IsIssued(journal[i].qr_code_token)
        /\ FindRow(qr_tokens, journal[i].qr_code_token, 1) = 0
        /\ RecordsFor(journal[i].qr_code_token) = {}

\* C10: no two consume calls for one token_id are at the same time between
\* having located the row and having issued the delete.
C10_ConsumeMutex ==
    \A c1, c2 \in Calls :
        ( /\ c1 # c2
          /\ calls[c1].pc \in {"read", "delete"}
          /\ calls[c2].pc \in {"read", "delete"} )
        => calls[c1].qr_code_token # calls[c2].qr_code_token

\* C11: the delete_rows call of a consume for token T removes no row of
\* another token: every row of Qr_Tokens that is not T's is still in the
\* sheet after the call.
C11_DeleteExactRow ==
    [][\A c \in Calls :
          (calls[c].pc = "delete" /\ calls'[c].pc = "check")
          => \A r \in 2..Len(qr_tokens) :
                 Uuid(qr_tokens[r]) # calls[c].qr_code_token
                 => \E q \in 2..Len(qr_tokens') : qr_tokens'[q] = qr_tokens[r]]_vars

\* C12: the attendance record appended by a redeem of token T that is
\* answered SUCCEEDED carries the participant_id and agenda_item_id T was
\* issued with.
C12_CorrectAttribution ==
    [][\A c \in Calls :
          ( /\ calls[c].pc = "append"
            /\ Len(attendance_log') = Len(attendance_log) + 1
            /\ journal'[Len(journal')].outcome = "SUCCEEDED"
            /\ IsIssued(calls[c].qr_code_token) )
          => LET log == attendance_log'[Len(attendance_log')]
             IN  /\ log[2] = IssuedOf(calls[c].qr_code_token).participant_id
                 /\ log[3] = IssuedOf(calls[c].qr_code_token).agenda_item_id]_vars

\* the step that follows each step of a redeem when the request goes on
StepAfter(pc) ==
    CASE pc = "find" -> "read"
      [] pc = "read" -> "delete"
      [] pc = "delete" -> "check"
      [] pc = "check" -> "scan"
      [] pc = "scan" -> "append"
      [] OTHER -> "idle"

\* the answer given in this step, "" when the step answers no request
Answered == IF Len(journal') = Len(journal) + 1 THEN journal'[Len(journal')].outcome ELSE ""

\* this step answers a request that failed one of check_in's own checks
FailedCheckStep ==
    Answered \in {"InvalidOrUsedToken", "Expired", "AgendaMismatch", "DuplicateCheckIn"}

\* C13: a redeem runs consume (find, read, delete), the expiry and agenda
\* checks, the ledger scan and the ledger append in this order and stops at
\* the first failure: each step of a request is followed by the next one or by
\* the answer; the token sheet changes only in a consume's delete and the
\* ledger only in an append, both after the request's delete_rows call; an
\* expired token with a wrong agenda id is answered Expired, an unexpired one
\* with a wrong agenda id AgendaMismatch even if its pair is recorded; and the
\* step that answers a failed check touches neither sheet.
C13_StepOrder ==
    /\ [](\A c \in Calls : calls[c].pc \in {"check", "scan", "append"} => calls[c].removed # "-")
    /\ [][\A c \in Calls :
             /\ (calls'[c] # calls[c] /\ calls[c].pc # "idle")
                => calls'[c].pc \in {StepAfter(calls[c].pc), "idle"}
             /\ (calls'[c] # calls[c] /\ qr_tokens' # qr_tokens) => calls[c].pc = "delete"
             /\ (calls'[c] # calls[c] /\ attendance_log' # attendance_log)
                => calls[c].pc = "append"
             /\ ( /\ CheckStep(c)
                  /\ now > Res * Held(c).expires_at
                  /\ calls[c].agenda_item_id # Held(c).agenda_item_id )
                => Answered = "Expired"
             /\ ( /\ CheckStep(c)
                  /\ now <= Res * Held(c).expires_at
                  /\ calls[c].agenda_item_id # Held(c).agenda_item_id
                  /\ RecordsFor(Held(c).token_uuid) # {} )
                => Answered = "AgendaMismatch"]_vars
    /\ [][FailedCheckStep => (qr_tokens' = qr_tokens /\ attendance_log' = attendance_log)]_vars

\* an expired token presented with a wrong agenda id was answered Expired
C13_Witness ==
    \E i \in Answers :
        /\ journal[i].outcome = "Expired"
        /\ IsIssued(journal[i].qr_code_token)
        /\ journal[i].agenda_item_id # IssuedOf(journal[i].qr_code_token).agenda_item_id
        /\ now > Res * IssuedOf(journal[i].qr_code_token).expires_at
        /\ Len(attendance_log) = 1

\* C14: a redeem holding an issued token is answered Expired exactly when
\* expires_at < now at its expiry check; when now <= expires_at it goes on to
\* the agenda check, and with the right agenda id to the ledger.
C14_ExpiryBoundary ==
    [][\A c \in Calls :
          CheckStep(c)
          => /\ (Answered = "Expired") <=> (Res * Held(c).expires_at < now)
             /\ ( /\ now <= Res * Held(c).expires_at
                  /\ calls[c].agenda_item_id = Held(c).agenda_item_id )
                => calls'[c].pc = "scan"]_vars

\* a redeem was answered SUCCEEDED at now = expires_at exactly
C14_Witness ==
    \E i \in Answers :
        /\ journal[i].outcome = "SUCCEEDED"
        /\ IsIssued(journal[i].qr_code_token)
        /\ now = Res * IssuedOf(journal[i].qr_code_token).expires_at

\* the token uuids handed out so far
IssuedIds == {issued[i].token_uuid : i \in 1..Len(issued)}

\* this step answers a token request: with success it has appended exactly
\* one row to Qr_Tokens, under a token id never handed out before, with the
\* requested participant, agenda item and device; with a failure it returns
\* no token and leaves Qr_Tokens as it was
IssueEffect ==
    /\ (lastIssue' # lastIssue /\ lastIssue'.status = "success")
       => /\ Len(qr_tokens') = Len(qr_tokens) + 1
          /\ SubSeq(qr_tokens', 1, Len(qr_tokens)) = qr_tokens
          /\ Len(issued') = Len(issued) + 1
          /\ LET row == qr_tokens'[Len(qr_tokens')]
             IN  /\ row[1] = lastIssue'.qr_code_token
                 /\ row[1] \notin IssuedIds
                 /\ \A r \in 1..Len(qr_tokens) : Uuid(qr_tokens[r]) # row[1]
                 /\ row[2] = lastIssue'.participant_id
                 /\ row[3] = lastIssue'.agenda_item_id
                 /\ row[4] = issued'[Len(issued')].device_id
    /\ (lastIssue' # lastIssue /\ lastIssue'.status # "success")
       => /\ qr_tokens' = qr_tokens
          /\ lastIssue'.qr_code_token = ""

\* the expires_at cell of the row this step appended to Qr_Tokens, in seconds
NewExpiresAt == ParseInt(qr_tokens'[Len(qr_tokens')][5])

\* C15, as claimed: issuance has the effect above and the new row's
\* expires_at is now + TTL.
C15_IssuanceExactTtl ==
    [][/\ IssueEffect
       /\ (lastIssue' # lastIssue /\ lastIssue'.status = "success")
          => Res * NewExpiresAt = now + QR_CODE_EXP_SECONDS * Res]_vars

\* C15, amended: issuance has the effect above and the new row's expires_at
\* is now + TTL cut down to whole seconds.
C15_IssuanceWholeSeconds ==
    [][/\ IssueEffect
       /\ (lastIssue' # lastIssue /\ lastIssue'.status = "success")
          => /\ Res * NewExpiresAt <= now + QR_CODE_EXP_SECONDS * Res
             /\ now + QR_CODE_EXP_SECONDS * Res < Res * (NewExpiresAt + 1)]_vars

\* a token issued between two whole seconds is in the sheet with an
\* expires_at earlier than its issue time + TTL
C15_Witness ==
    /\ lastIssue.status = "success"
    /\ \E i \in 1..Len(issued) :
          /\ issued[i].token_uuid = lastIssue.qr_code_token
          /\ Res * issued[i].expires_at < issued[i].issued_at + QR_CODE_EXP_SECONDS * Res
          /\ FindRow(qr_tokens, issued[i].token_uuid, 1) # 0
          /\ ParseInt(qr_tokens[FindRow(qr_tokens, issued[i].token_uuid, 1)][5])
                = issued[i].expires_at

\* the outcomes of a redeem
Outcomes ==
    {"SUCCEEDED", "InvalidOrUsedToken", "Expired", "AgendaMismatch", "DuplicateCheckIn",
     "StorageError"}

\* C16: every check_in request a worker thread has taken is answered in the
\* end; a request is answered in one step that gives one answer and frees the
\* thread; and every answer is SUCCEEDED, InvalidOrUsedToken, Expired,
\* AgendaMismatch, DuplicateCheckIn or StorageError.
C16_TerminalOutcome ==
    /\ \A c \in Calls : (calls[c].pc # "idle") ~> (calls[c].pc = "idle")
    /\ [](\A i \in Answers : journal[i].outcome \in Outcomes)
    /\ [][\A c \in Calls :
             (calls[c].pc # "idle" /\ calls'[c].pc = "idle")
             <=> ( /\ calls[c].pc # "idle"
                   /\ calls'[c] # calls[c]
                   /\ Len(journal') = Len(journal) + 1
                   /\ journal'[Len(journal')].qr_code_token = calls[c].qr_code_token )]_vars

\* every request of the behaviour was taken and answered, one of them with
\* success and one with a failure
C16_Witness ==
    /\ Quiet
    /\ Len(journal) = MaxCalls
    /\ \E i, j \in Answers :
          journal[i].outcome = "SUCCEEDED" /\ journal[j].outcome \in Outcomes \ {"SUCCEEDED"}

\* this step is a step of generate_qr_token / of a check_in request
IssueStep == issued' # issued \/ lastIssue' # lastIssue
RedeemStep == calls' # calls

\* C17: no step changes or removes a row of Attendance_Log (the sheet keeps
\* its rows and at most gains rows at the end); a step of generate_qr_token
\* leaves Attendance_Log unchanged; a step of check_in adds no row to
\* Qr_Tokens and changes no row of it: every row of the sheet after the step
\* was a row of it before, in the same order.
C17_AppendOnlyLedger ==
    [][/\ Len(attendance_log') >= Len(attendance_log)
       /\ SubSeq(attendance_log', 1, Len(attendance_log)) = attendance_log
       /\ IssueStep => attendance_log' = attendance_log
       /\ RedeemStep
          => \/ qr_tokens' = qr_tokens
             \/ \E r \in 2..Len(qr_tokens) :
                   qr_tokens' = SubSeq(qr_tokens, 1, r - 1)
                                \o SubSeq(qr_tokens, r + 1, Len(qr_tokens))]_vars

\* the ledger holds two records and a consume has removed a token row
C17_Witness ==
    /\ Len(attendance_log) >= 3
    /\ Len(issued) = MaxIssues
    /\ Len(qr_tokens) < 1 + MaxIssues

\* C18: a redeem is answered DuplicateCheckIn only if the ledger holds a
\* record for the token's pair whose is_valid is TRUE.
C18_ValidRecordsOnly ==
    \A i \in Answers :
        (journal[i].outcome = "DuplicateCheckIn" /\ IsIssued(journal[i].qr_code_token))
        => RecordsFor(journal[i].qr_code_token) # {}

\* C19: a redeem goes from the ledger scan to the append only if the ledger
\* holds no record for the pair of the token data it holds.
C19_AppendOnlyAfterScan ==
    [][\A c \in Calls :
          (calls[c].pc = "scan" /\ calls'[c].pc = "append")
          => \A i \in 1..Len(Ledger) :
                ~( /\ Ledger[i]["participant_id"] = Get(calls[c].token_data, "participant_id", "None")
                   /\ Ledger[i]["agenda_item_id"] = Get(calls[c].token_data, "agenda_item_id", "None") )]_vars

====
